---- MODULE Spec2Model ----
(***************************************************************************)
(* Student Resource Hub backend (DocDom-Backend): the store (colleges,     *)
(* users, file records, the uploads directory) and one action per HTTP     *)
(* handler of routes/auth.js, routes/files.js and server.js.               *)
(*                                                                         *)
(* Strings that the code parses (emails, course names, search terms, file  *)
(* names) are sequences of one-character strings, so that split, trim and  *)
(* regular-expression matching are computed, not assumed.                  *)
(***************************************************************************)
EXTENDS Naturals, Integers, Sequences, FiniteSets, TLC

VARIABLES colleges, users, files, disk, now, pending, resp

vars == <<colleges, users, files, disk, now, pending, resp>>

(***************************************************************************)
(* Bounds of the model.                                                    *)
(***************************************************************************)
MaxUsers == 2
MaxFiles == 2
MaxDisk == 2
MaxColleges == 3
MaxInflight == 2

(***************************************************************************)
(* Characters and strings.                                                 *)
(***************************************************************************)
NoField == "<absent>"

\* String.prototype.toLowerCase / the RegExp 'i' flag, on one character.
LowerChar(c) ==
    CASE c = "A" -> "a"
      [] c = "B" -> "b"
      [] c = "D" -> "d"
      [] c = "L" -> "l"
      [] c = "M" -> "m"
      [] c = "S" -> "s"
      [] OTHER -> c

Lower(s) == [i \in 1..Len(s) |-> LowerChar(s[i])]

RECURSIVE TrimLeft(_)
TrimLeft(s) == IF s # <<>> /\ Head(s) = " " THEN TrimLeft(Tail(s)) ELSE s

RECURSIVE TrimRight(_)
TrimRight(s) ==
    IF s # <<>> /\ s[Len(s)] = " " THEN TrimRight(SubSeq(s, 1, Len(s) - 1)) ELSE s

\* express-validator .trim() and the mongoose schema option trim: true.
Trim(s) == TrimRight(TrimLeft(s))

\* String.prototype.split(sep) for a one-character separator: the list of
\* segments between the separators.
RECURSIVE Split(_, _)
Split(s, sep) ==
    IF \A i \in 1..Len(s) : s[i] # sep
    THEN <<s>>
    ELSE LET k == CHOOSE i \in 1..Len(s) :
                      s[i] = sep /\ \A j \in 1..(i - 1) : s[j] # sep
         IN  <<SubSeq(s, 1, k - 1)>> \o Split(SubSeq(s, k + 1, Len(s)), sep)

\* Array.prototype.join(sep).
RECURSIVE Join(_, _)
Join(parts, sep) ==
    IF Len(parts) = 0 THEN <<>>
    ELSE IF Len(parts) = 1 THEN parts[1]
    ELSE parts[1] \o <<sep>> \o Join(Tail(parts), sep)

(***************************************************************************)
(* Regular expressions as the list handler builds them: the pattern text   *)
(* is the client's string, so "." is a wildcard and an unmatched "(" is a  *)
(* syntax error of new RegExp.                                             *)
(***************************************************************************)
RegexCompiles(p) == \A i \in 1..Len(p) : p[i] # "("

RegexMatchAt(p, s, k) ==
    /\ k + Len(p) - 1 <= Len(s)
    /\ \A i \in 1..Len(p) : p[i] = "." \/ LowerChar(p[i]) = LowerChar(s[k + i - 1])

\* new RegExp(p, 'i').test(s)
RegexSearch(p, s) == \E k \in 1..(Len(s) + 1) : RegexMatchAt(p, s, k)

\* new RegExp(`^${p}$`, 'i').test(s)
RegexFull(p, s) == Len(p) = Len(s) /\ RegexMatchAt(p, s, 1)

(***************************************************************************)
(* Input values.  Str("...") is not available in TLA+, so the strings the  *)
(* code parses are written out character by character.                     *)
(***************************************************************************)
QisDomain == <<"q","i","s","c","e","t",".","e","d","u",".","i","n">>
GvpDomain == <<"g","v","p",".","a","c",".","i","n">>
EvilDomain == <<"e","v","i","l",".","i","o">>

QisName ==
    <<"Q","i","s"," ","C","o","l","l","e","g","e"," ","O","f"," ","E","n","g","i","n","e","e","r","i","n","g"," ","A","n","d"," ","T","e","c","h","n","o","l","o","g","y">>
GvpName ==
    <<"G","a","y","a","t","r","i"," ","V","i","d","y","a"," ","P","a","r","i","s","h","a","d"," ","C","o","l","l","e","g","e"," ","f","o","r"," ","D","e","g","r","e","e"," ","&"," ","P",".","G","."," ","C","o","u","r","s","e","s">>

\* scripts/seedColleges.js: the colleges array, inserted by seedColleges.
SeedColleges ==
    { [id |-> "c1", name |-> QisName, domain |-> QisDomain],
      [id |-> "c2", name |-> GvpName, domain |-> GvpDomain] }

LowerLetters ==
    {"a","b","c","d","e","f","g","h","i","j","k","l","m",
     "n","o","p","q","r","s","t","u","v","w","x","y","z"}
Digits == {"0","1","2","3","4","5","6","7","8","9"}

\* Emails a client may send.
QisEmail == <<"a","@">> \o QisDomain
GvpEmail == <<"a","@">> \o GvpDomain
OtherGvpEmail == <<"b", "@">> \o GvpDomain
QuotedEmail == <<"\"","a","@">> \o GvpDomain \o <<"@","\"","@">> \o EvilDomain

EmailInputs ==
    { QisEmail, GvpEmail, <<"A","@">> \o GvpDomain, <<"a","@">> \o EvilDomain,
      QuotedEmail, <<"a">> }

GoodPassword == <<"s","e","c","r","e","t">>
ShortPassword == <<"p","w">>
PasswordInputs == { GoodPassword, <<"w","r","o","n","g","1">>, <<>> }
CollegeIdInputs == { "c1", "c2", "c9", "not-an-id" }

\* isMongoId: 24 hexadecimal characters.  "c1", "c2", ... stand for
\* well-formed ObjectIds, "c9" for a well-formed id no college has.
IsMongoId(id) == id \in {"c1", "c2", "c3", "c4", "c5", "c6", "c7", "c9"}

(***************************************************************************)
(* validator.js isEmail, as called by body('email').isEmail(): the domain  *)
(* is the text after the LAST "@", the local part is everything before it  *)
(* and may be a quoted string, in which "@" is an ordinary character.      *)
(***************************************************************************)
IsFQDN(d) ==
    LET labels == Split(d, ".")
        tld == labels[Len(labels)]
    IN  /\ Len(labels) >= 2
        /\ \A i \in 1..Len(labels) :
              /\ labels[i] # <<>>
              /\ \A j \in 1..Len(labels[i]) :
                    LowerChar(labels[i][j]) \in LowerLetters \cup Digits \cup {"-"}
        /\ Len(tld) >= 2
        /\ \A j \in 1..Len(tld) : LowerChar(tld[j]) \in LowerLetters

IsEmail(s) ==
    LET parts == Split(s, "@")
        domain == parts[Len(parts)]
        user == Join(SubSeq(parts, 1, Len(parts) - 1), "@")
        atoms == Split(user, ".")
    IN  /\ Len(parts) >= 2
        /\ IsFQDN(domain)
        /\ user # <<>>
        /\ IF user[1] = "\"" /\ user[Len(user)] = "\"" /\ Len(user) >= 2
           THEN \A i \in 2..(Len(user) - 1) : user[i] \notin {"\"", "\\"}
           ELSE \A i \in 1..Len(atoms) :
                  /\ atoms[i] # <<>>
                  /\ \A j \in 1..Len(atoms[i]) :
                        LowerChar(atoms[i][j]) \in LowerLetters \cup Digits \cup {"-", "_", "+"}

\* validator.js normalizeEmail with the default options, for an address
\* that is not one of the special-cased providers: lower-case it.
NormalizeEmail(s) == Lower(s)

(***************************************************************************)
(* Responses.  A message is a one-element sequence holding its text, or    *)
(* the pieces of a template string.                                        *)
(***************************************************************************)
NoData == [none |-> TRUE]
NoReq == [none |-> TRUE]

Msg(text) == <<text>>

Response(op, req, status, success, message, errors, data) ==
    [op |-> op, req |-> req, status |-> status, success |-> success,
     message |-> message, errors |-> errors, data |-> data]

\* No response is on its way to a client.
NoResponse == Response("none", NoReq, 0, FALSE, <<>>, {}, NoData)

\* res.status(400).json({ success: false, errors: errors.array() })
ValidationFailed(op, req, errs) == Response(op, req, 400, FALSE, <<>>, errs, NoData)

\* res.status(code).json({ success: false, message })
Failure(op, req, status, text) == Response(op, req, status, FALSE, Msg(text), {}, NoData)

(***************************************************************************)
(* Collaborators whose source is not part of the repository snapshot:      *)
(* models/User.js (password hashing, unique email) and middleware/auth.js  *)
(* (generateToken, protect).                                               *)
(***************************************************************************)
\* bcrypt hash stored by the User model's pre-save hook.
HashPassword(p) == [bcrypt |-> p]

\* user.comparePassword(candidate)
ComparePassword(u, candidate) == u.password = HashPassword(candidate)

\* generateToken(user._id): a signed token whose only claim is the user id.
GenerateToken(uid) == [kind |-> "jwt", sub |-> uid]

\* Credentials a request may carry: none, an unverifiable token, an expired
\* token, or a token issued to an existing user.
NoToken == [kind |-> "none", sub |-> 0]

Credentials ==
    { NoToken, [kind |-> "garbage", sub |-> 0] }
        \cup { [kind |-> "expired", sub |-> u.id] : u \in users }
        \cup { GenerateToken(u.id) : u \in users }

\* protect: the set holding the resolved user, or the empty set when the
\* request is answered 401.
Protect(cred) == { u \in users : cred = GenerateToken(u.id) }

CollegeById(id) == { c \in colleges : c.id = id }

\* populate('college', ...): the referenced college document.
CollegeOf(ref) == CHOOSE c \in colleges : c.id = ref

(***************************************************************************)
(* POST /api/register                                                      *)
(***************************************************************************)
\* Every email with every college id, and for the two seeded domains each
\* of the other fields invalid in turn.
RegisterBodies ==
    [name : {<<"A","l">>}, email : EmailInputs, password : {GoodPassword},
     collegeId : CollegeIdInputs]
    \cup { [name |-> x[1], email |-> e, password |-> x[2], collegeId |-> x[3]] :
             e \in {QisEmail, GvpEmail},
             x \in { <<(<<"A">>), GoodPassword, "c1">>,
                     <<(<<"A","l">>), ShortPassword, "c2">>,
                     <<(<<"B","o">>), GoodPassword, "c2">> } }
    \cup { [name |-> <<"B","o">>, email |-> OtherGvpEmail, password |-> GoodPassword,
            collegeId |-> "c2"] }

\* The express-validator chain of the route: the fields that fail.
RegisterErrors(b) ==
    { f \in {"name", "email", "password", "collegeId"} :
        \/ f = "name" /\ ~(Len(Trim(b.name)) >= 2 /\ Len(Trim(b.name)) <= 100)
        \/ f = "email" /\ ~IsEmail(Trim(b.email))
        \/ f = "password" /\ Len(b.password) < 6
        \/ f = "collegeId" /\ (b.collegeId = "" \/ ~IsMongoId(b.collegeId)) }

\* req.body after the sanitizers (trim, normalizeEmail) have run.
RegisterSanitized(b) ==
    [b EXCEPT !.name = Trim(b.name), !.email = NormalizeEmail(Trim(b.email))]

\* email.split('@')[1]
EmailDomain(email) == Split(email, "@")[2]

\* The handler with the college lookup ahead of the duplicate check.
RegisterRejectionCollegeFirst(b) ==
    LET body == RegisterSanitized(b)
        found == CollegeById(body.collegeId)
    IN  IF RegisterErrors(b) # {}
        THEN ValidationFailed("register", b, RegisterErrors(b))
        ELSE IF found = {}
        THEN Failure("register", b, 400, "Invalid college selected")
        ELSE IF \E u \in users : u.email = body.email
        THEN Failure("register", b, 400, "User with this email already exists")
        ELSE LET college == CHOOSE c \in found : TRUE
             IN  IF Split(body.email, "@")[2] # college.domain
                 THEN Response("register", b, 400, FALSE,
                               <<"Email domain must be @", college.domain, " for ", college.name>>,
                               {}, NoData)
                 ELSE NoData

\* The handler with the duplicate check after the college and domain checks.
RegisterRejectionDuplicateLast(b) ==
    LET body == RegisterSanitized(b)
        found == CollegeById(body.collegeId)
    IN  IF RegisterErrors(b) # {}
        THEN ValidationFailed("register", b, RegisterErrors(b))
        ELSE IF found = {}
        THEN Failure("register", b, 400, "Invalid college selected")
        ELSE LET college == CHOOSE c \in found : TRUE
             IN  IF Split(body.email, "@")[2] # college.domain
                 THEN Response("register", b, 400, FALSE,
                               <<"Email domain must be @", college.domain, " for ", college.name>>,
                               {}, NoData)
                 ELSE IF \E u \in users : u.email = body.email
                 THEN Failure("register", b, 400, "User with this email already exists")
                 ELSE NoData

\* The handler up to User.create: the 400 response it sends, or NoData
\* when every check passes.
RegisterRejection(b) ==
    LET body == RegisterSanitized(b)
        found == CollegeById(body.collegeId)
    IN  IF RegisterErrors(b) # {}
        THEN ValidationFailed("register", b, RegisterErrors(b))
        ELSE IF \E u \in users : u.email = body.email
        THEN Failure("register", b, 400, "User with this email already exists")
        ELSE IF found = {}
        THEN Failure("register", b, 400, "Invalid college selected")
        ELSE LET college == CHOOSE c \in found : TRUE
             IN  IF EmailDomain(body.email) # college.domain
                 THEN Response("register", b, 400, FALSE,
                               <<"Email domain must be @", college.domain, " for ", college.name>>,
                               {}, NoData)
                 ELSE NoData

NewUser(body) ==
    [id |-> Cardinality(users) + 1, name |-> body.name, email |-> body.email,
     password |-> HashPassword(body.password), college |-> body.collegeId,
     createdAt |-> now]

\* User.create and what follows it.  The unique index on email makes the
\* insert throw E11000 when the address is taken; the handler's catch turns
\* every exception into the 500 response.
CreateAccount(b) ==
    LET body == RegisterSanitized(b)
        user == NewUser(body)
    IN  IF \E u \in users : u.email = body.email
        THEN /\ resp' = Failure("register", b, 500, "Server error during registration")
             /\ UNCHANGED users
        ELSE /\ users' = users \cup {user}
             /\ resp' = Response("register", b, 201, TRUE,
                                 Msg("User registered successfully"), {},
                                 [id |-> user.id, name |-> user.name,
                                  email |-> user.email,
                                  college |-> CollegeOf(user.college).name,
                                  token |-> GenerateToken(user.id)])

\* The handler run without another registration interleaved.
Register(b) ==
    /\ resp = NoResponse
    /\ IF RegisterRejection(b) # NoData
       THEN /\ resp' = RegisterRejection(b)
            /\ UNCHANGED users
       ELSE /\ Cardinality(users) < MaxUsers
            /\ CreateAccount(b)
    /\ UNCHANGED <<colleges, files, disk, now, pending>>

\* Concurrent requests.  A request runs up to the await of User.create: a
\* rejected request is answered at once, an accepted one stays in flight
\* and is completed by RegisterCreate.
FreeSlots == { i \in 1..MaxInflight : pending[i] = NoReq }

RegisterCheck(b) ==
    /\ resp = NoResponse
    /\ FreeSlots # {}
    /\ IF RegisterRejection(b) # NoData
       THEN /\ resp' = RegisterRejection(b)
            /\ UNCHANGED pending
       ELSE /\ Cardinality(users) < MaxUsers
            /\ pending' = [pending EXCEPT
                     ![CHOOSE i \in FreeSlots : \A j \in FreeSlots : i <= j] = b]
            /\ UNCHANGED resp
    /\ UNCHANGED <<colleges, users, files, disk, now>>

RegisterCreate(i) ==
    /\ resp = NoResponse
    /\ pending[i] # NoReq /\ "email" \in DOMAIN pending[i]
    /\ CreateAccount(pending[i])
    /\ pending' = [pending EXCEPT ![i] = NoReq]
    /\ UNCHANGED <<colleges, files, disk, now>>

(***************************************************************************)
(* POST /api/login                                                         *)
(***************************************************************************)
LoginBodies == [email : EmailInputs \ {QuotedEmail}, password : PasswordInputs]

LoginErrors(b) ==
    { f \in {"email", "password"} :
        \/ f = "email" /\ ~IsEmail(Trim(b.email))
        \/ f = "password" /\ b.password = <<>> }

\* The handler telling an unknown address apart from a wrong password.
LoginResponseRevealing(b) ==
    LET email == NormalizeEmail(Trim(b.email))
        found == { u \in users : u.email = email }
    IN  IF LoginErrors(b) # {}
        THEN ValidationFailed("login", b, LoginErrors(b))
        ELSE IF found = {}
        THEN Failure("login", b, 404, "User not found")
        ELSE LET user == CHOOSE u \in found : TRUE
             IN  IF ~ComparePassword(user, b.password)
                 THEN Failure("login", b, 401, "Invalid credentials")
                 ELSE Response("login", b, 200, TRUE, Msg("Login successful"), {},
                               [id |-> user.id, name |-> user.name, email |-> user.email,
                                college |-> CollegeOf(user.college).name,
                                token |-> GenerateToken(user.id)])

\* The handler answering with the document it loaded with select('+password').
LoginResponseWithPassword(b) ==
    LET email == NormalizeEmail(Trim(b.email))
        found == { u \in users : u.email = email }
    IN  IF LoginErrors(b) # {}
        THEN ValidationFailed("login", b, LoginErrors(b))
        ELSE IF found = {}
        THEN Failure("login", b, 401, "Invalid credentials")
        ELSE LET user == CHOOSE u \in found : TRUE
             IN  IF ~ComparePassword(user, b.password)
                 THEN Failure("login", b, 401, "Invalid credentials")
                 ELSE Response("login", b, 200, TRUE, Msg("Login successful"), {},
                               [id |-> user.id, name |-> user.name, email |-> user.email,
                                password |-> user.password,
                                college |-> CollegeOf(user.college).name,
                                token |-> GenerateToken(user.id)])

LoginResponse(b) ==
    LET email == NormalizeEmail(Trim(b.email))
        found == { u \in users : u.email = email }
    IN  IF LoginErrors(b) # {}
        THEN ValidationFailed("login", b, LoginErrors(b))
        ELSE IF found = {}
        THEN Failure("login", b, 401, "Invalid credentials")
        ELSE LET user == CHOOSE u \in found : TRUE
             IN  IF ~ComparePassword(user, b.password)
                 THEN Failure("login", b, 401, "Invalid credentials")
                 ELSE Response("login", b, 200, TRUE, Msg("Login successful"), {},
                               [id |-> user.id, name |-> user.name, email |-> user.email,
                                college |-> CollegeOf(user.college).name,
                                token |-> GenerateToken(user.id)])

Login(b) ==
    /\ resp = NoResponse
    /\ resp' = LoginResponse(b)
    /\ UNCHANGED <<colleges, users, files, disk, now, pending>>

(***************************************************************************)
(* File routes.  config/multer.js is not part of the repository snapshot:  *)
(* upload.single('file') is modelled from its documented behaviour (type   *)
(* whitelist, size limit, unique stored name).                             *)
(***************************************************************************)
Semesters == {"1", "2", "3", "4", "5", "6", "7", "8"}

NoFile == [none |-> TRUE]

AllowedTypes == {"application/pdf", "text/plain", "image/png"}
MaxFileSize == 10485760

\* An optional text field that the request does not carry.
Absent == <<"<absent>">>

LabPdf == [originalname |-> <<"L","a","b">>, mimetype |-> "application/pdf", size |-> 2048]
DsTxt == [originalname |-> <<"d","s">>, mimetype |-> "text/plain", size |-> 10]

\* Multipart bodies of POST /api/files/upload.  college and uploader are
\* fields a client may add to the form although the API does not define them.
BaseUpload ==
    [semester |-> "3", course |-> <<"d","s">>, description |-> Absent, file |-> LabPdf,
     college |-> NoField, uploader |-> 0]
SecondUpload ==
    [semester |-> "4", course |-> <<"D","S"," ">>, description |-> <<"l","a","b">>,
     file |-> DsTxt, college |-> NoField, uploader |-> 0]

UploadBodies ==
    { [b EXCEPT !.college = x[1], !.uploader = x[2]] :
        b \in {BaseUpload, SecondUpload},
        x \in {<<NoField, 0>>, <<"c1", 0>>, <<"c2", 1>>} }
    \cup { [BaseUpload EXCEPT !.semester = "9"],
           [BaseUpload EXCEPT !.semester = ""],
           [BaseUpload EXCEPT !.course = <<" ">>],
           [BaseUpload EXCEPT !.file = NoFile],
           [BaseUpload EXCEPT !.file = [LabPdf EXCEPT !.mimetype = "application/x-sh"]],
           [BaseUpload EXCEPT !.file = [LabPdf EXCEPT !.size = MaxFileSize + 1]] }

\* Accounts, file records and stored payloads are numbered in creation order.
IsFileId(id) == id >= 1

\* upload.single('file'): the error multer passes to next(), or "" when
\* it lets the request through.
MulterError(b) ==
    IF b.file = NoFile THEN ""
    ELSE IF b.file.mimetype \notin AllowedTypes THEN "Invalid file type"
    ELSE IF b.file.size > MaxFileSize THEN "File size too large. Maximum size is 10MB."
    ELSE ""

\* The name under which multer writes the payload to the uploads directory
\* before the route's validators run (stored names are numbered in creation
\* order; a payload is identified by its stored name): the empty set when
\* the request carries no file.
MulterStored(user, b) ==
    IF b.file = NoFile THEN {}
    ELSE { Cardinality(disk) + 1 }

UploadErrors(b) ==
    { f \in {"semester", "course", "description"} :
        \/ f = "semester" /\ (b.semester = "" \/ b.semester \notin Semesters)
        \/ f = "course" /\ (Trim(b.course) = <<>> \/ Len(Trim(b.course)) > 100)
        \/ f = "description" /\ b.description # NoField
                              /\ Len(Trim(b.description)) > 1000 }

\* `/uploads/${req.file.filename}` and path.basename(file.fileUrl)
FileUrl(stored) == [dir |-> "/uploads", base |-> stored]
Basename(url) == url.base

\* File.create taking the college and the uploader from the form when the
\* client supplies them.
NewFileTrustingBody(user, b, stored) ==
    [id |-> Cardinality(files) + 1,
     college |-> IF b.college # NoField THEN b.college ELSE user.college,
     uploader |-> IF b.uploader # 0 THEN b.uploader ELSE user.id,
     fileName |-> Trim(b.file.originalname),
     semester |-> b.semester,
     course |-> Trim(b.course),
     description |-> IF b.description = Absent THEN <<>> ELSE Trim(b.description),
     fileUrl |-> FileUrl(stored),
     fileType |-> b.file.mimetype,
     fileSize |-> b.file.size,
     uploadDate |-> now]

\* File.create writing every upload to the same document.
NewFileReusingId(user, b, stored) ==
    [id |-> 1,
     college |-> user.college,
     uploader |-> user.id,
     fileName |-> Trim(b.file.originalname),
     semester |-> b.semester,
     course |-> Trim(b.course),
     description |-> IF b.description = Absent THEN <<>> ELSE Trim(b.description),
     fileUrl |-> FileUrl(stored),
     fileType |-> b.file.mimetype,
     fileSize |-> b.file.size,
     uploadDate |-> now]

\* The document File.create stores.
NewFile(user, b, stored) ==
    [id |-> Cardinality(files) + 1,
     college |-> user.college,
     uploader |-> user.id,
     fileName |-> Trim(b.file.originalname),
     semester |-> b.semester,
     course |-> Trim(b.course),
     description |-> IF b.description = Absent THEN <<>> ELSE Trim(b.description),
     fileUrl |-> FileUrl(stored),
     fileType |-> b.file.mimetype,
     fileSize |-> b.file.size,
     uploadDate |-> now]

\* populate('uploader', 'name email') and populate('college', fields)
PopulateUploader(ref) ==
    LET u == CHOOSE x \in users : x.id = ref
    IN  [id |-> u.id, name |-> u.name, email |-> u.email]

Populated(f, withDomain) ==
    [f EXCEPT !.uploader = PopulateUploader(f.uploader),
              !.college = IF withDomain
                          THEN CollegeOf(f.college)
                          ELSE [id |-> f.college, name |-> CollegeOf(f.college).name]]

\* protect answers before the route's validators and handler see the request.
Unauthorized(op, cred) == Failure(op, [cred |-> cred], 401, "Not authorized")

\* The route with upload.single('file') ahead of protect in its chain.
UploadMulterFirst(cred, b) ==
    LET req == [cred |-> cred, body |-> b]
        stored == MulterStored(NoReq, b)
    IN  /\ resp = NoResponse
        /\ UNCHANGED <<colleges, users, pending>>
        /\ IF MulterError(b) # ""
           THEN /\ resp' = Failure("upload", req, 400, MulterError(b))
                /\ UNCHANGED <<files, disk, now>>
           ELSE /\ Cardinality(disk) + Cardinality(stored) <= MaxDisk
                /\ disk' = disk \cup stored
                /\ IF Protect(cred) = {}
                   THEN /\ resp' = Unauthorized("upload", cred)
                        /\ UNCHANGED <<files, now>>
                   ELSE IF UploadErrors(b) # {}
                   THEN /\ resp' = ValidationFailed("upload", req, UploadErrors(b))
                        /\ UNCHANGED <<files, now>>
                   ELSE IF b.file = NoFile
                   THEN /\ resp' = Failure("upload", req, 400, "Please upload a file")
                        /\ UNCHANGED <<files, now>>
                   ELSE LET user == CHOOSE u \in Protect(cred) : TRUE
                            file == NewFile(user, b, CHOOSE x \in stored : TRUE)
                        IN  /\ Cardinality(files) < MaxFiles
                            /\ files' = files \cup {file}
                            /\ now' \in {now, now + 1}
                            /\ resp' = Response("upload", req, 201, TRUE,
                                                Msg("File uploaded successfully"), {},
                                                Populated(file, FALSE))

\* POST /api/files/upload: protect, upload.single('file'), validators, handler.
Upload(cred, b) ==
    LET req == [cred |-> cred, body |-> b] IN
    /\ resp = NoResponse
    /\ UNCHANGED <<colleges, users, pending>>
    /\ IF Protect(cred) = {}
       THEN /\ resp' = Unauthorized("upload", cred)
            /\ UNCHANGED <<files, disk, now>>
       ELSE LET user == CHOOSE u \in Protect(cred) : TRUE
                stored == MulterStored(user, b)
            IN  IF MulterError(b) # ""
                THEN /\ resp' = Failure("upload", req, 400, MulterError(b))
                     /\ UNCHANGED <<files, disk, now>>
                ELSE /\ Cardinality(disk) + Cardinality(stored) <= MaxDisk
                     /\ disk' = disk \cup stored
                     /\ IF UploadErrors(b) # {}
                        THEN /\ resp' = ValidationFailed("upload", req, UploadErrors(b))
                             /\ UNCHANGED <<files, now>>
                        ELSE IF b.file = NoFile
                        THEN /\ resp' = Failure("upload", req, 400, "Please upload a file")
                             /\ UNCHANGED <<files, now>>
                        ELSE LET file == NewFile(user, b, CHOOSE x \in stored : TRUE)
                             IN  /\ Cardinality(files) < MaxFiles
                                 /\ files' = files \cup {file}
                                 /\ now' \in {now, now + 1}
                                 /\ resp' = Response("upload", req, 201, TRUE,
                                                     Msg("File uploaded successfully"), {},
                                                     Populated(file, FALSE))

(***************************************************************************)
(* GET /api/files                                                          *)
(***************************************************************************)
\* Query strings of the list request: every combination of the four
\* filters present or absent, and further values of each filter alone.
NoFilters ==
    [semester |-> NoField, course |-> Absent, search_term |-> Absent, myuploads |-> NoField]

ListQueries ==
    [semester : {NoField, "3"}, course : {Absent, <<"d","s">>},
     search_term : {Absent, <<"l","a","b">>}, myuploads : {NoField, "true"}]
    \cup { [NoFilters EXCEPT !.semester = v] : v \in {"4", "9"} }
    \cup { [NoFilters EXCEPT !.course = v] : v \in {<<"D","S"," ">>, <<"d",".">>, <<"(">>} }
    \cup { [NoFilters EXCEPT !.search_term = v] : v \in {<<"A">>, <<"a",".">>, <<"(">>} }
    \cup { [NoFilters EXCEPT !.myuploads = v] : v \in {"false", "1", "yes"} }

ListErrors(q) ==
    { f \in {"semester", "myuploads"} :
        \/ f = "semester" /\ q.semester # NoField /\ q.semester \notin Semesters
        \/ f = "myuploads" /\ q.myuploads # NoField
                            /\ q.myuploads \notin {"true", "false", "1", "0"} }

\* req.query after .optional().trim() on course and search_term.
ListSanitized(q) ==
    [q EXCEPT !.course = IF q.course = Absent THEN Absent ELSE Trim(q.course),
              !.search_term = IF q.search_term = Absent THEN Absent
                              ELSE Trim(q.search_term)]

\* A query-string value is truthy when it is present and not empty.
TruthyText(v) == v # Absent /\ v # <<>>

\* new RegExp throws a SyntaxError on a malformed pattern.
ListQueryThrows(q) ==
    \/ TruthyText(q.course) /\ ~RegexCompiles(q.course)
    \/ TruthyText(q.search_term) /\ ~RegexCompiles(q.search_term)

\* The filter object with the search term's $or at the top level of the
\* query instead of inside the conjunction.
ListQueryMatchesSearchWidens(user, q, f) ==
    \/ /\ f.college = user.college
       /\ (q.semester # NoField /\ q.semester # "") => f.semester = q.semester
       /\ TruthyText(q.course) => RegexFull(q.course, f.course)
       /\ q.myuploads = "true" => f.uploader = user.id
    \/ /\ TruthyText(q.search_term)
       /\ \/ RegexSearch(q.search_term, f.fileName)
          \/ RegexSearch(q.search_term, f.description)

\* The filter object without the semester term.
ListQueryMatchesNoSemester(user, q, f) ==
    /\ f.college = user.college
    /\ TruthyText(q.course) => RegexFull(q.course, f.course)
    /\ q.myuploads = "true" => f.uploader = user.id
    /\ TruthyText(q.search_term) =>
          \/ RegexSearch(q.search_term, f.fileName)
          \/ RegexSearch(q.search_term, f.description)

\* The filter object built from the request, as a predicate on documents.
ListQueryMatches(user, q, f) ==
    /\ f.college = user.college
    /\ (q.semester # NoField /\ q.semester # "") => f.semester = q.semester
    /\ TruthyText(q.course) => RegexFull(q.course, f.course)
    /\ q.myuploads = "true" => f.uploader = user.id
    /\ TruthyText(q.search_term) =>
          \/ RegexSearch(q.search_term, f.fileName)
          \/ RegexSearch(q.search_term, f.description)

\* The result sorted with .sort({ uploadDate: 1 }), oldest first.
SortedByUploadDateAscending(S) ==
    { seq \in [1..Cardinality(S) -> S] :
        /\ \A i, j \in 1..Cardinality(S) : i # j => seq[i] # seq[j]
        /\ \A i, j \in 1..Cardinality(S) :
              i < j => seq[i].uploadDate <= seq[j].uploadDate }

\* .sort({ uploadDate: -1 }): the orderings of a result set that put later
\* upload dates first; documents of equal date come in any order.
SortedByUploadDate(S) ==
    { seq \in [1..Cardinality(S) -> S] :
        /\ \A i, j \in 1..Cardinality(S) : i # j => seq[i] # seq[j]
        /\ \A i, j \in 1..Cardinality(S) :
              i < j => seq[i].uploadDate >= seq[j].uploadDate }

ListFilters(user, q) ==
    [college |-> CollegeOf(user.college).name,
     semester |-> IF q.semester \in {NoField, ""} THEN "all" ELSE q.semester,
     course |-> IF TruthyText(q.course) THEN q.course ELSE <<"all">>,
     myUploads |-> (q.myuploads = "true"),
     searchTerm |-> IF TruthyText(q.search_term) THEN q.search_term ELSE <<"none">>]

ListFiles(cred, query) ==
    LET req == [cred |-> cred, query |-> query] IN
    /\ resp = NoResponse
    /\ UNCHANGED <<colleges, users, files, disk, now, pending>>
    /\ IF Protect(cred) = {}
       THEN resp' = Unauthorized("list", cred)
       ELSE IF ListErrors(query) # {}
       THEN resp' = ValidationFailed("list", req, ListErrors(query))
       ELSE LET user == CHOOSE u \in Protect(cred) : TRUE
                q == ListSanitized(query)
                found == { f \in files : ListQueryMatches(user, q, f) }
            IN  IF ListQueryThrows(q)
                THEN resp' = Failure("list", req, 500, "Server error while fetching files")
                ELSE \E seq \in SortedByUploadDate(found) :
                        resp' = Response("list", req, 200, TRUE, <<>>, {},
                                         [count |-> Len(seq),
                                          filters |-> ListFilters(user, q),
                                          files |-> [i \in 1..Len(seq) |->
                                                       Populated(seq[i], FALSE)]])

(***************************************************************************)
(* GET /api/files/:id and GET /api/files/:id/download                      *)
(***************************************************************************)
\* Ids a client may put in the path: a malformed one, the ids of the
\* records that may exist, and a well-formed id of no record.
FileIdInputs == {-1} \cup (1..(MaxFiles + 1))

\* param('id').isMongoId()
FileIdErrors(id) == IF IsFileId(id) THEN {} ELSE {"id"}

\* The handlers without the college comparison.
FileAccessRejectionNoCollegeCheck(op, req, user, id, denied) ==
    IF { f \in files : f.id = id } = {}
    THEN Failure(op, req, 404, "File not found")
    ELSE NoData

\* The handlers with the comparison inverted.
FileAccessRejectionInverted(op, req, user, id, denied) ==
    LET found == { f \in files : f.id = id }
    IN  IF found = {}
        THEN Failure(op, req, 404, "File not found")
        ELSE IF (CHOOSE f \in found : TRUE).college = user.college
        THEN Failure(op, req, 403, denied)
        ELSE NoData

\* The part the two handlers share: File.findById, the 404 and the college
\* comparison.  NoData when the caller may read the record.
FileAccessRejection(op, req, user, id, denied) ==
    LET found == { f \in files : f.id = id }
    IN  IF found = {}
        THEN Failure(op, req, 404, "File not found")
        ELSE LET file == CHOOSE f \in found : TRUE
             IN  IF CollegeOf(file.college).id # CollegeOf(user.college).id
                 THEN Failure(op, req, 403, denied)
                 ELSE NoData

GetFile(cred, id) ==
    LET req == [cred |-> cred, id |-> id] IN
    /\ resp = NoResponse
    /\ UNCHANGED <<colleges, users, files, disk, now, pending>>
    /\ IF Protect(cred) = {}
       THEN resp' = Unauthorized("get", cred)
       ELSE IF FileIdErrors(id) # {}
       THEN resp' = ValidationFailed("get", req, FileIdErrors(id))
       ELSE LET user == CHOOSE u \in Protect(cred) : TRUE
                rejection == FileAccessRejection("get", req, user, id,
                    "Access denied: You can only access files from your college")
            IN  IF rejection # NoData
                THEN resp' = rejection
                ELSE resp' = Response("get", req, 200, TRUE, <<>>, {},
                                      Populated(CHOOSE f \in files : f.id = id, TRUE))

\* What happens to fs.createReadStream(filePath).pipe(res).
StreamOutcomes == {"complete", "open-error", "read-error"}

Download(cred, id) ==
    LET req == [cred |-> cred, id |-> id] IN
    /\ resp = NoResponse
    /\ UNCHANGED <<colleges, users, files, disk, now, pending>>
    /\ IF Protect(cred) = {}
       THEN resp' = Unauthorized("download", cred)
       ELSE IF FileIdErrors(id) # {}
       THEN resp' = ValidationFailed("download", req, FileIdErrors(id))
       ELSE LET user == CHOOSE u \in Protect(cred) : TRUE
                rejection == FileAccessRejection("download", req, user, id,
                    "Access denied: You can only download files from your college")
            IN  IF rejection # NoData
                THEN resp' = rejection
                ELSE LET file == CHOOSE f \in files : f.id = id
                         onDisk == { d \in disk : d = Basename(file.fileUrl) }
                     IN  IF onDisk = {}
                         THEN resp' = Failure("download", req, 404,
                                              "File not found on server")
                         ELSE \E outcome \in StreamOutcomes :
                                resp' =
                                  IF outcome = "open-error"
                                  THEN Failure("download", req, 500, "Error reading file")
                                  ELSE Response("download", req, 200, TRUE, <<>>, {},
                                         [disposition |-> file.fileName,
                                          type |-> file.fileType,
                                          length |-> file.fileSize,
                                          bytes |-> CHOOSE d \in onDisk : TRUE,
                                          ended |-> (outcome = "complete")])

(***************************************************************************)
(* server.js: app.use('/uploads', express.static('uploads')) and the 404   *)
(* handler behind it.                                                      *)
(***************************************************************************)
StaticGet(cred, name) ==
    LET req == [cred |-> cred, name |-> name]
        onDisk == { d \in disk : d = name }
    IN  /\ resp = NoResponse
        /\ UNCHANGED <<colleges, users, files, disk, now, pending>>
        /\ IF onDisk = {}
           THEN resp' = Failure("static", req, 404, "Route not found")
           ELSE resp' = Response("static", req, 200, TRUE, <<>>, {},
                                 [bytes |-> CHOOSE d \in onDisk : TRUE,
                                  ended |-> TRUE])

(***************************************************************************)
(* POST /api/colleges and GET /api/user/me                                 *)
(***************************************************************************)
CollegeBodies ==
    [name : { <<"X","U">>, QisName, <<"X">> },
     domain : { <<"x",".","i","o">>, GvpDomain, <<"X",".","i","o">>, <<"i","o">> }]

\* /^[a-z0-9.-]+\.[a-z]{2,}$/.test(d)
DomainPattern(d) ==
    \E k \in 2..(Len(d) - 2) :
        /\ d[k] = "."
        /\ \A i \in 1..(k - 1) : d[i] \in LowerLetters \cup Digits \cup {".", "-"}
        /\ \A i \in (k + 1)..Len(d) : d[i] \in LowerLetters

CollegeErrors(b) ==
    { f \in {"name", "domain"} :
        \/ f = "name" /\ ~(Len(Trim(b.name)) >= 2 /\ Len(Trim(b.name)) <= 200)
        \/ f = "domain" /\ ~(/\ Len(Trim(b.domain)) >= 3
                              /\ Len(Trim(b.domain)) <= 100
                              /\ DomainPattern(Trim(b.domain))) }

NewCollegeId == IF Cardinality(colleges) = 2 THEN "c3"
                ELSE IF Cardinality(colleges) = 3 THEN "c4" ELSE "c5"

\* The handler up to College.create: the 400 response it sends, or NoData
\* when validation and the findOne check pass.
CollegeRejection(req) ==
    LET name == Trim(req.body.name)
        domain == Trim(req.body.domain)
    IN  IF CollegeErrors(req.body) # {}
        THEN ValidationFailed("college", req, CollegeErrors(req.body))
        ELSE IF \E c \in colleges : c.name = name \/ c.domain = Lower(domain)
        THEN Failure("college", req, 400,
                     "College with this name or domain already exists")
        ELSE NoData

NewCollege(b) ==
    [id |-> NewCollegeId, name |-> Trim(Trim(b.name)), domain |-> Trim(Lower(Trim(b.domain)))]

\* College.create and what follows it.  The unique indexes on name and on
\* domain make the insert throw E11000 when either is taken; the handler's
\* catch turns every exception into the 500 response.
InsertCollege(req) ==
    LET college == NewCollege(req.body)
    IN  IF \E c \in colleges : c.name = college.name \/ c.domain = college.domain
        THEN /\ resp' = Failure("college", req, 500, "Server error while adding college")
             /\ UNCHANGED colleges
        ELSE /\ colleges' = colleges \cup {college}
             /\ resp' = Response("college", req, 201, TRUE,
                                 Msg("College added successfully"), {}, college)

\* The handler run without another college creation interleaved.
CreateCollege(cred, b) ==
    LET req == [cred |-> cred, body |-> b]
    IN  /\ resp = NoResponse
        /\ UNCHANGED <<users, files, disk, now, pending>>
        /\ IF CollegeRejection(req) # NoData
           THEN /\ resp' = CollegeRejection(req)
                /\ UNCHANGED colleges
           ELSE /\ Cardinality(colleges) < MaxColleges
                /\ InsertCollege(req)

\* Concurrent requests: a request runs up to the await of College.create
\* and is completed by CollegeInsert.
IsCollegeReq(p) == p # NoReq /\ "body" \in DOMAIN p

CollegeCheck(cred, b) ==
    LET req == [cred |-> cred, body |-> b]
    IN  /\ resp = NoResponse
        /\ FreeSlots # {}
        /\ IF CollegeRejection(req) # NoData
           THEN /\ resp' = CollegeRejection(req)
                /\ UNCHANGED pending
           ELSE /\ Cardinality(colleges) < MaxColleges
                /\ pending' = [pending EXCEPT
                         ![CHOOSE i \in FreeSlots : \A j \in FreeSlots : i <= j] = req]
                /\ UNCHANGED resp
        /\ UNCHANGED <<colleges, users, files, disk, now>>

CollegeInsert(i) ==
    /\ resp = NoResponse
    /\ IsCollegeReq(pending[i])
    /\ InsertCollege(pending[i])
    /\ pending' = [pending EXCEPT ![i] = NoReq]
    /\ UNCHANGED <<users, files, disk, now>>

Profile(cred) ==
    LET req == [cred |-> cred] IN
    /\ resp = NoResponse
    /\ UNCHANGED <<colleges, users, files, disk, now, pending>>
    /\ IF Protect(cred) = {}
       THEN resp' = Unauthorized("profile", cred)
       ELSE LET user == CHOOSE u \in Protect(cred) : TRUE
            IN  resp' = Response("profile", req, 200, TRUE, <<>>, {},
                                 [id |-> user.id, name |-> user.name, email |-> user.email,
                                  college |-> CollegeOf(user.college),
                                  createdAt |-> user.createdAt])

(***************************************************************************)
(* The server: a seeded store, then any interleaving of requests.  resp    *)
(* holds the response a handler has produced until it has left the server; *)
(* requests that are still in flight (pending) survive it.                 *)
(***************************************************************************)
Sent ==
    /\ resp # NoResponse
    /\ resp' = NoResponse
    /\ UNCHANGED <<colleges, users, files, disk, now, pending>>

Init ==
    /\ colleges = SeedColleges
    /\ users = {}
    /\ files = {}
    /\ disk = {}
    /\ now = 0
    /\ pending = [i \in 1..MaxInflight |-> NoReq]
    /\ resp = NoResponse

Next ==
    \/ \E b \in RegisterBodies : Register(b)
    \/ \E b \in LoginBodies : Login(b)
    \/ \E cred \in {NoToken} \cup {GenerateToken(u.id) : u \in users}, b \in CollegeBodies :
          CreateCollege(cred, b)
    \/ \E cred \in Credentials : Profile(cred)
    \/ \E cred \in Credentials, b \in UploadBodies : Upload(cred, b)
    \/ \E cred \in Credentials, q \in ListQueries : ListFiles(cred, q)
    \/ \E cred \in Credentials, id \in FileIdInputs : GetFile(cred, id)
    \/ \E cred \in Credentials, id \in FileIdInputs : Download(cred, id)
    \/ \E cred \in {NoToken} \cup {GenerateToken(u.id) : u \in users}, name \in 1..MaxDisk :
          StaticGet(cred, name)
    \/ Sent

Spec == Init /\ [][Next]_vars

(***************************************************************************)
(* scripts/seedColleges.js run against the live store.                     *)
(***************************************************************************)
\* insertMany gives the documents new ObjectIds.
ReseededColleges ==
    { [id |-> "c6", name |-> QisName, domain |-> QisDomain],
      [id |-> "c7", name |-> GvpName, domain |-> GvpDomain] }

\* seedColleges: College.deleteMany({}) and College.insertMany(colleges).
\* The script is run at most once more after the initial seeding.
SeedRun ==
    /\ resp = NoResponse
    /\ colleges \cap ReseededColleges = {}
    /\ colleges' = ReseededColleges
    /\ UNCHANGED <<users, files, disk, now, pending, resp>>

\* Registrations that name the colleges of either seeding.
SeedRegisterBodies ==
    RegisterBodies
        \cup [name : {<<"A","l">>}, email : {QisEmail, GvpEmail, OtherGvpEmail},
              password : {GoodPassword}, collegeId : {"c6", "c7"}]

\* Registrations and college creations around a run of the seeding script.
NextSeed ==
    \/ \E b \in SeedRegisterBodies : Register(b)
    \/ \E cred \in {NoToken}, b \in CollegeBodies : CreateCollege(cred, b)
    \/ SeedRun
    \/ Sent

SpecSeed == Init /\ [][NextSeed]_vars

\* Registrations and college creations that overlap in time, with logins.
NextRace ==
    \/ \E b \in RegisterBodies : RegisterCheck(b)
    \/ \E i \in 1..MaxInflight : RegisterCreate(i)
    \/ \E cred \in {NoToken}, b \in CollegeBodies : CollegeCheck(cred, b)
    \/ \E i \in 1..MaxInflight : CollegeInsert(i)
    \/ \E b \in LoginBodies : Login(b)
    \/ Sent

SpecRace == Init /\ [][NextRace]_vars

(***************************************************************************)
(* Properties.                                                             *)
(***************************************************************************)
Authenticated(cred) == Protect(cred) # {}
Caller(cred) == CHOOSE u \in Protect(cred) : TRUE

\* The ids of the records a list response carries.
ListedIds(r) == { r.data.files[i].id : i \in 1..Len(r.data.files) }

\* C1: every record a list response returns belongs to the caller's
\* college, whichever of the four filters the query carries.
C1_ListOnlyOwnCollege ==
    (resp.op = "list" /\ resp.status = 200) =>
        \A i \in 1..Len(resp.data.files) :
            resp.data.files[i].college.id = Caller(resp.req.cred).college

\* A list request with a search term returned records while a record of
\* another college matches the same search term.
C1_Witness ==
    /\ resp.op = "list" /\ resp.status = 200
    /\ TruthyText(resp.req.query.search_term)
    /\ Len(resp.data.files) >= 1
    /\ \E f \in files :
          /\ f.college # Caller(resp.req.cred).college
          /\ \/ RegexSearch(resp.req.query.search_term, f.fileName)
             \/ RegexSearch(resp.req.query.search_term, f.description)

\* C2: for fetch-by-id and download by an authenticated caller with a
\* well-formed id: no such record gives 404; a record of another college
\* gives 403 and no data; data is returned only for a record of the
\* caller's own college.
C2_FetchAndDownloadGuarded ==
    (/\ resp.op \in {"get", "download"}
     /\ Authenticated(resp.req.cred)
     /\ IsFileId(resp.req.id)) =>
        LET found == { f \in files : f.id = resp.req.id }
            mine == { f \in found : f.college = Caller(resp.req.cred).college }
        IN  /\ found = {} => (resp.status = 404 /\ resp.data = NoData)
            /\ (found # {} /\ mine = {}) => (resp.status = 403 /\ resp.data = NoData)
            /\ resp.data # NoData => mine # {}

\* A caller was refused a record of another college.
C2_Witness ==
    /\ resp.op \in {"get", "download"}
    /\ resp.status = 403
    /\ \E f \in files : f.id = resp.req.id /\ f.college # Caller(resp.req.cred).college

\* C3: a response carries stored bytes only for an authenticated caller
\* whose college is the college of the record the bytes belong to.
C3_BytesOnlyToOwnCollege ==
    \A f \in files :
        (/\ resp.op \in {"download", "static"}
         /\ resp.status = 200
         /\ resp.data.bytes = Basename(f.fileUrl)) =>
            /\ Authenticated(resp.req.cred)
            /\ f.college = Caller(resp.req.cred).college

\* C4: the record an upload creates carries the caller's college and the
\* caller as uploader whatever the form says, so two uploads by one caller
\* that differ only in the form's college and uploader fields agree on both.
C4_UploadProvenance ==
    (resp.op = "upload" /\ resp.status = 201) =>
        LET caller == Caller(resp.req.cred)
            created == CHOOSE f \in files : f.id = resp.data.id
        IN  /\ resp.data.college.id = caller.college
            /\ resp.data.uploader.id = caller.id
            /\ created.college = caller.college
            /\ created.uploader = caller.id
            /\ \A b \in UploadBodies :
                  [b EXCEPT !.college = NoField, !.uploader = 0]
                    = [resp.req.body EXCEPT !.college = NoField, !.uploader = 0] =>
                      /\ NewFile(caller, b, 1).college = created.college
                      /\ NewFile(caller, b, 1).uploader = created.uploader

\* An upload whose form names another college than the caller's succeeded.
C4_Witness ==
    /\ resp.op = "upload" /\ resp.status = 201
    /\ resp.req.body.college \notin {NoField, Caller(resp.req.cred).college}

\* The substring of an address after its "@".
SubstringAfterAt(email) ==
    LET k == CHOOSE i \in 1..Len(email) :
                 email[i] = "@" /\ \A j \in 1..(i - 1) : email[j] # "@"
    IN  SubSeq(email, k + 1, Len(email))

\* C5: a registration either creates an account that references the
\* selected college and whose address, after the "@", is that college's
\* stored domain, or fails with status 400 and creates nothing.
C5_RegistrationDomainChecked ==
    resp.op = "register" =>
        \/ /\ resp.status = 201
           /\ \E u \in users :
                 /\ u.id = resp.data.id
                 /\ u.college = resp.req.collegeId
                 /\ SubstringAfterAt(u.email) = CollegeOf(resp.req.collegeId).domain
        \/ /\ resp.status = 400
           /\ resp.data = NoData

\* The address of a registration request is the address of an account.
EmailRegistered(email) ==
    \E u \in users : u.email = NormalizeEmail(Trim(email))

DuplicateKeyMessage == Msg("User with this email already exists")

\* C6 as stated: a registration whose address is already registered is
\* answered 400 "User with this email already exists" whatever its other
\* fields hold, and leaves the accounts unchanged.
C6_DuplicateAlwaysDuplicateKey ==
    [][(resp = NoResponse /\ resp'.op = "register" /\ EmailRegistered(resp'.req.email)) =>
          /\ resp'.status = 400
          /\ resp'.message = DuplicateKeyMessage
          /\ users' = users]_vars

\* C6 as amended: the same for a registration whose fields pass the
\* route's input validation.
C6_ValidDuplicateIsDuplicateKey ==
    [][(/\ resp = NoResponse /\ resp'.op = "register"
        /\ EmailRegistered(resp'.req.email)
        /\ RegisterErrors(resp'.req) = {}) =>
          /\ resp'.status = 400
          /\ resp'.message = DuplicateKeyMessage
          /\ users' = users]_vars

\* A registration for a registered address that names another college than
\* the account's was answered with the duplicate message.
C6_Witness ==
    /\ resp.op = "register"
    /\ resp.message = DuplicateKeyMessage
    /\ \E u \in users :
          /\ u.email = NormalizeEmail(Trim(resp.req.email))
          /\ u.college # resp.req.collegeId

\* C7: after registrations for one address that overlap, at most one
\* account holds the address, and a registration that created no account
\* was answered with status 400.
C7_RaceLoserGetsDuplicateKey ==
    /\ \A u1 \in users, u2 \in users : u1.email = u2.email => u1 = u2
    /\ (resp.op = "register" /\ resp.status # 201) => resp.status = 400

\* What a client sees of a response.
Shape(r) == [r EXCEPT !.req = NoReq]

InvalidCredentials == Shape(Failure("login", NoReq, 401, "Invalid credentials"))

WrongPassword(b) ==
    \E u \in users :
        u.email = NormalizeEmail(Trim(b.email)) /\ ~ComparePassword(u, b.password)

\* C8: a login with a registered address and a wrong password and a login
\* with an unregistered address are answered alike: 401, success false,
\* "Invalid credentials".
C8_LoginIndistinguishable ==
    (resp.op = "login" /\ LoginErrors(resp.req) = {}) =>
        /\ ~EmailRegistered(resp.req.email) => Shape(resp) = InvalidCredentials
        /\ WrongPassword(resp.req) =>
              /\ Shape(resp) = InvalidCredentials
              /\ \A b \in LoginBodies :
                    (LoginErrors(b) = {} /\ ~EmailRegistered(b.email)) =>
                        Shape(LoginResponse(b)) = Shape(resp)

\* A login with the address of an account and a wrong password was refused.
C8_Witness ==
    /\ resp.op = "login" /\ resp.status = 401
    /\ WrongPassword(resp.req)
    /\ \E b \in LoginBodies : LoginErrors(b) = {} /\ ~EmailRegistered(b.email)

\* GET /api/files/:id by this user for this id is answered 200.
FetchSucceeds(user, id) ==
    FileAccessRejection("get", NoReq, user, id, "") = NoData

\* C9: list and fetch-by-id agree on what a caller may see: the unfiltered
\* list returns exactly the records whose fetch by the caller succeeds, and
\* a fetch succeeds exactly for the records the unfiltered list matches.
C9_ListAndFetchAgree ==
    /\ (resp.op = "list" /\ resp.status = 200 /\ resp.req.query = NoFilters) =>
          ListedIds(resp) =
              { f.id : f \in { g \in files : FetchSucceeds(Caller(resp.req.cred), g.id) } }
    /\ (resp.op = "get" /\ Authenticated(resp.req.cred) /\ IsFileId(resp.req.id)) =>
          (resp.status = 200 <=>
              \E f \in files :
                  /\ f.id = resp.req.id
                  /\ ListQueryMatches(Caller(resp.req.cred), NoFilters, f))

\* An unfiltered list returned a record while the store holds a record of
\* another college.
C9_Witness ==
    /\ resp.op = "list" /\ resp.status = 200 /\ resp.req.query = NoFilters
    /\ Len(resp.data.files) >= 1
    /\ \E f \in files : f.college # Caller(resp.req.cred).college

\* C10: a list request whose only filter is semester t returns exactly the
\* records of the caller's college that were uploaded with semester t, and
\* the record an upload creates carries the semester of its form.
C10_SemesterRoundTrip ==
    /\ (resp.op = "upload" /\ resp.status = 201) =>
          LET created == CHOOSE f \in files : f.id = resp.data.id
          IN  /\ created.semester = resp.req.body.semester
              /\ \A u \in users, t \in Semesters :
                    u.college = created.college =>
                        (ListQueryMatches(u, [NoFilters EXCEPT !.semester = t], created)
                            <=> t = resp.req.body.semester)
    /\ (/\ resp.op = "list" /\ resp.status = 200
        /\ resp.req.query.semester # NoField
        /\ resp.req.query = [NoFilters EXCEPT !.semester = resp.req.query.semester]) =>
          ListedIds(resp) =
              { f.id : f \in { g \in files :
                                  /\ g.college = Caller(resp.req.cred).college
                                  /\ g.semester = resp.req.query.semester } }

\* A list by semester returned exactly one record while the caller's college
\* holds a record of another semester.
C10_Witness ==
    /\ resp.op = "list" /\ resp.status = 200
    /\ resp.req.query.semester = "3"
    /\ Len(resp.data.files) = 1
    /\ resp.data.files[1].semester = "3"
    /\ \E f \in files :
          f.college = Caller(resp.req.cred).college /\ f.semester = "4"

\* t occurs in s as a substring, letters compared without regard to case.
ContainsIgnoreCase(t, s) ==
    \E k \in 1..(Len(s) - Len(t) + 1) :
        Lower(SubSeq(s, k, k + Len(t) - 1)) = Lower(t)

\* The query of a list response as the handler reads it.
SanitizedQuery(r) == ListSanitized(r.req.query)

\* C11: a list request with search term t returns exactly the records of
\* the caller's college that pass the other filters and whose file name or
\* description contains t as a substring, compared case-insensitively.
C11_SearchIsSubstring ==
    (/\ resp.op = "list" /\ resp.status = 200
     /\ TruthyText(SanitizedQuery(resp).search_term)) =>
        LET q == SanitizedQuery(resp)
            others == [q EXCEPT !.search_term = Absent]
        IN  ListedIds(resp) =
                { f.id : f \in { g \in files :
                    /\ ListQueryMatches(Caller(resp.req.cred), others, g)
                    /\ \/ ContainsIgnoreCase(q.search_term, g.fileName)
                       \/ ContainsIgnoreCase(q.search_term, g.description) } }

\* C12: a list request with course c succeeds and returns exactly the
\* records of the caller's college that pass the other filters and whose
\* course equals c as a whole string, compared case-insensitively.
C12_CourseIsExactMatch ==
    (/\ resp.op = "list" /\ Authenticated(resp.req.cred)
     /\ ListErrors(resp.req.query) = {}
     /\ TruthyText(SanitizedQuery(resp).course)
     /\ ~TruthyText(SanitizedQuery(resp).search_term)) =>
        LET q == SanitizedQuery(resp)
            others == [q EXCEPT !.course = Absent]
        IN  /\ resp.status = 200
            /\ ListedIds(resp) =
                  { f.id : f \in { g \in files :
                      /\ ListQueryMatches(Caller(resp.req.cred), others, g)
                      /\ Lower(g.course) = Lower(q.course) } }

\* The values .isBoolean() accepts that stand for true.
BooleanTrue == {"true", "1"}

\* C13: a list response to a request whose myuploads flag validation
\* accepts as boolean true holds only records uploaded by the caller; with
\* the flag absent or false, records of the caller's college uploaded by
\* others are not left out.
C13_MyUploadsRestrictsToCaller ==
    (resp.op = "list" /\ resp.status = 200) =>
        LET q == SanitizedQuery(resp)
            caller == Caller(resp.req.cred)
        IN  /\ q.myuploads \in BooleanTrue =>
                  \A i \in 1..Len(resp.data.files) :
                      resp.data.files[i].uploader.id = caller.id
            /\ q.myuploads \notin BooleanTrue =>
                  ListedIds(resp) =
                      { f.id : f \in { g \in files :
                          ListQueryMatches(caller, [q EXCEPT !.myuploads = NoField], g) } }

\* The response is the 400 that input validation sends.
ValidationRejected(r) == r.status = 400 /\ r.errors # {}

\* C14: a register, college-creation or upload request that input
\* validation rejects leaves the accounts, the colleges, the file records
\* and the stored payloads as they were.
C14_ValidationRejectionHasNoEffect ==
    [][(/\ resp = NoResponse
        /\ resp'.op \in {"register", "college", "upload"}
        /\ ValidationRejected(resp')) =>
          /\ users' = users
          /\ colleges' = colleges
          /\ files' = files
          /\ disk' = disk]_vars

\* C15: a download ends in one definitive outcome: the complete bytes with
\* the attachment headers and the response finished, or an error response
\* that carries none of the file; never a response left unfinished.
C15_DownloadEndsDefinitively ==
    (resp.op = "download" /\ Authenticated(resp.req.cred) /\ IsFileId(resp.req.id)) =>
        \/ /\ resp.status = 200
           /\ resp.data.ended
           /\ \E f \in files :
                 /\ f.id = resp.req.id
                 /\ resp.data.bytes = Basename(f.fileUrl)
                 /\ resp.data.disposition = f.fileName
                 /\ resp.data.type = f.fileType
                 /\ resp.data.length = f.fileSize
        \/ /\ resp.status \in {403, 404, 500}
           /\ resp.data = NoData

\* C16: no two colleges share a name or a domain, every stored domain is
\* lowercase and matches the domain pattern, and a creation request that
\* adds no college was answered with status 400.
C16_CollegesUniqueAndRejected ==
    /\ \A c1 \in colleges, c2 \in colleges :
          (c1.name = c2.name \/ c1.domain = c2.domain) => c1 = c2
    /\ \A c \in colleges : c.domain = Lower(c.domain) /\ DomainPattern(c.domain)
    /\ (resp.op = "college" /\ resp.status # 201) => resp.status = 400

\* C17: a college is created only for a request that carries a valid
\* authenticated identity.
C17_CollegeCreationNeedsIdentity ==
    (resp.op = "college" /\ resp.status = 201) => Authenticated(resp.req.cred)

\* C18: every college reference held by an account or a file record names
\* a college that is in the store.
C18_CollegeReferencesResolve ==
    /\ \A u \in users : \E c \in colleges : c.id = u.college
    /\ \A f \in files : \E c \in colleges : c.id = f.college

\* C19: the records of a list response come in descending order of their
\* upload timestamps, whichever filters the query carries.
C19_ListNewestFirst ==
    (resp.op = "list" /\ resp.status = 200) =>
        /\ \A i \in 1..Len(resp.data.files) :
              \E f \in files :
                  /\ f.id = resp.data.files[i].id
                  /\ f.uploadDate = resp.data.files[i].uploadDate
        /\ \A i, j \in 1..Len(resp.data.files) :
              i < j => resp.data.files[i].uploadDate >= resp.data.files[j].uploadDate

\* A list returned two records of different upload timestamps.
C19_Witness ==
    /\ resp.op = "list" /\ resp.status = 200
    /\ Len(resp.data.files) = 2
    /\ resp.data.files[1].uploadDate > resp.data.files[2].uploadDate

AccountResponse(r) == r.op \in {"register", "login", "profile"}

\* C20 as stated: a success payload of register, login or the profile
\* endpoint consists only of id, name, email, college and token.
C20_PayloadOnlySummaryAndToken ==
    (AccountResponse(resp) /\ resp.success) =>
        DOMAIN resp.data \subseteq {"id", "name", "email", "college", "token"}

\* C20 as amended: no response of the three endpoints carries the password
\* or its hash.  A failure carries no data; a success payload of register
\* and login is the account's id, name, email, its college's name and the
\* token; that of the profile endpoint is the account's id, name, email,
\* its college and the account's creation time.
C20_NoPasswordInResponses ==
    AccountResponse(resp) =>
        IF ~resp.success
        THEN resp.data = NoData
        ELSE \E u \in users :
                /\ resp.data.id = u.id
                /\ resp.data.name = u.name
                /\ resp.data.email = u.email
                /\ IF resp.op = "profile"
                   THEN /\ DOMAIN resp.data = {"id", "name", "email", "college", "createdAt"}
                        /\ resp.data.college = CollegeOf(u.college)
                        /\ resp.data.createdAt = u.createdAt
                   ELSE /\ DOMAIN resp.data = {"id", "name", "email", "college", "token"}
                        /\ resp.data.college = CollegeOf(u.college).name
                        /\ resp.data.token = GenerateToken(u.id)

\* A login succeeded for an account whose stored document holds the hash.
C20_Witness ==
    /\ resp.op = "login" /\ resp.status = 200
    /\ \E u \in users : u.id = resp.data.id /\ u.password = HashPassword(resp.req.password)

\* C21: in every state reached through the HTTP endpoints, the text after
\* the "@" of each account's address is the stored domain of the college
\* the account references.
C21_AccountDomainMatchesCollege ==
    \A u \in users :
        \E c \in colleges :
            /\ c.id = u.college
            /\ SubstringAfterAt(u.email) = c.domain

\* C22: file records are append-only.  Every request keeps each existing
\* record as it is; an upload answered 201 adds exactly one record, under
\* an id no record had; every other request adds none; and list, fetch,
\* download, login and profile requests leave the whole store unchanged.
C22_FileRecordsAppendOnly ==
    [][/\ files \subseteq files'
       /\ (resp = NoResponse /\ resp'.op = "upload" /\ resp'.status = 201) =>
             \E f \in files' :
                 /\ f.id \notin { g.id : g \in files }
                 /\ f.id = resp'.data.id
                 /\ files' = files \cup {f}
       /\ ~(resp = NoResponse /\ resp'.op = "upload" /\ resp'.status = 201) =>
             files' = files
       /\ (resp = NoResponse /\ resp'.op \in {"list", "get", "download", "login", "profile"}) =>
             /\ users' = users
             /\ colleges' = colleges
             /\ disk' = disk]_vars

\* A second upload succeeded and the record of the first is still stored.
C22_Witness ==
    /\ resp.op = "upload" /\ resp.status = 201
    /\ \E f \in files : f.id # resp.data.id

\* The credentials are a token issued to an account of the store.
ValidToken(cred) == \E u \in users : cred = GenerateToken(u.id)

\* C23: an upload request without a valid token is answered 401 by the
\* guard, stores no payload and creates no file record.
C23_UploadGuardRunsFirst ==
    [][(resp = NoResponse /\ resp'.op = "upload" /\ ~ValidToken(resp'.req.cred)) =>
          /\ resp'.status = 401
          /\ disk' = disk
          /\ files' = files]_vars

\* An upload with the expired token of an account was refused while
\* nothing is stored.
C23_Witness ==
    /\ resp.op = "upload" /\ resp.status = 401
    /\ resp.req.cred.kind = "expired"
    /\ \E u \in users : u.id = resp.req.cred.sub
    /\ disk = {} /\ files = {}

\* C24: registration checks run in the order input validation, duplicate
\* email, college existence, domain match (the handler's comparison of the
\* address's domain part with the college's domain).  The first check that
\* fails decides the 400 response, and then no account is created and no
\* token issued; when all four pass, one account is created and its token
\* issued.
C24_RegistrationCheckOrder ==
    [][(resp = NoResponse /\ resp'.op = "register") =>
          LET b == resp'.req
              email == NormalizeEmail(Trim(b.email))
              refused(message) ==
                  /\ resp'.status = 400
                  /\ message
                  /\ resp'.data = NoData
                  /\ users' = users
          IN  IF RegisterErrors(b) # {}
              THEN refused(resp'.errors = RegisterErrors(b))
              ELSE IF \E u \in users : u.email = email
              THEN refused(resp'.message = DuplicateKeyMessage)
              ELSE IF \A c \in colleges : c.id # b.collegeId
              THEN refused(resp'.message = Msg("Invalid college selected"))
              ELSE IF Split(email, "@")[2] # CollegeOf(b.collegeId).domain
              THEN refused(resp'.message[1] = "Email domain must be @")
              ELSE /\ resp'.status = 201
                   /\ \E u \in users' :
                         /\ u \notin users
                         /\ users' = users \cup {u}
                         /\ u.email = email
                         /\ u.college = b.collegeId
                         /\ resp'.data.id = u.id
                         /\ resp'.data.token = GenerateToken(u.id)]_vars

\* A registration that fails two checks, duplicate email and college
\* existence, was answered with the duplicate message.
C24_Witness ==
    /\ resp.op = "register" /\ resp.status = 400
    /\ resp.message = DuplicateKeyMessage
    /\ RegisterErrors(resp.req) = {}
    /\ \A c \in colleges : c.id # resp.req.collegeId

====
